---------------------------- MODULE Spec2Model ----------------------------
(* A model of dead.py (asottile/dead): the Visitor that records defines   *)
(* and reads per scope while it walks the project's files, the entry      *)
(* point scanners, and the reconciliation loop of main() that prints the  *)
(* diagnostics and computes the exit status.                              *)
(*                                                                        *)
(* Strings (file names, symbol names, file:line locations, comments,      *)
(* entry point strings) are sequences of one-character strings, so that   *)
(* formatting, regular expressions and sorted() are computed as Python    *)
(* computes them.                                                         *)
EXTENDS Integers, Sequences, FiniteSets, TLC

\* ------------------------------------------------------------ bounds
\* nodes (statements, string constants, config lines, comments) of a run
MaxSteps == 3
\* line number of the first statement of every file
FirstLine == 9

\* ----------------------------------------------------------- strings
Min(a, b) == IF a < b THEN a ELSE b

Range(s) == { s[i] : i \in DOMAIN s }

\* ord() of the characters the model uses
Ord(c) ==
  CASE c = "\n" -> 10
    [] c = " " -> 32
    [] c = "#" -> 35
    [] c = "(" -> 40
    [] c = ")" -> 41
    [] c = "-" -> 45
    [] c = "." -> 46
    [] c = "/" -> 47
    [] c = "0" -> 48
    [] c = "1" -> 49
    [] c = "2" -> 50
    [] c = "3" -> 51
    [] c = "4" -> 52
    [] c = "5" -> 53
    [] c = "6" -> 54
    [] c = "7" -> 55
    [] c = "8" -> 56
    [] c = "9" -> 57
    [] c = ":" -> 58
    [] c = "=" -> 61
    [] c = ">" -> 62
    [] c = "A" -> 65
    [] c = "E" -> 69
    [] c = "I" -> 73
    [] c = "N" -> 78
    [] c = "X" -> 88
    [] c = "_" -> 95
    [] c = "a" -> 97
    [] c = "b" -> 98
    [] c = "c" -> 99
    [] c = "d" -> 100
    [] c = "e" -> 101
    [] c = "f" -> 102
    [] c = "g" -> 103
    [] c = "i" -> 105
    [] c = "l" -> 108
    [] c = "m" -> 109
    [] c = "n" -> 110
    [] c = "o" -> 111
    [] c = "p" -> 112
    [] c = "q" -> 113
    [] c = "r" -> 114
    [] c = "s" -> 115
    [] c = "t" -> 116
    [] c = "u" -> 117
    [] c = "x" -> 120
    [] c = "y" -> 121

\* str < str in Python: lexicographic by code point
StrLt(s, t) ==
  \E i \in 1..(Min(Len(s), Len(t)) + 1) :
    /\ \A j \in 1..(i - 1) : s[j] = t[j]
    /\ \/ i = Len(s) + 1 /\ i <= Len(t)
       \/ i <= Len(s) /\ i <= Len(t) /\ Ord(s[i]) < Ord(t[i])

\* sorted(v) of a set of strings; SortedDesc is the variant that lists the
\* set in descending order
RECURSIVE SortedDesc(_)
SortedDesc(v) ==
  IF v = {} THEN <<>>
  ELSE LET m == CHOOSE a \in v : \A b \in v \ {a} : StrLt(b, a)
       IN  <<m>> \o SortedDesc(v \ {m})

RECURSIVE sorted(_)
sorted(v) ==
  IF v = {} THEN <<>>
  ELSE LET m == CHOOSE a \in v : \A b \in v \ {a} : StrLt(a, b)
       IN  <<m>> \o sorted(v \ {m})

Digit(n) == <<"0", "1", "2", "3", "4", "5", "6", "7", "8", "9">>[n + 1]

\* str(n) for n >= 0
RECURSIVE Str(_)
Str(n) == IF n < 10 THEN <<Digit(n)>> ELSE Str(n \div 10) \o <<Digit(n % 10)>>

startswith(s, p) == Len(s) >= Len(p) /\ SubSeq(s, 1, Len(p)) = p

endswith(s, p) == Len(s) >= Len(p) /\ SubSeq(s, Len(s) - Len(p) + 1, Len(s)) = p

\* [a-zA-Z0-9_]
IsWordChar(c) ==
  \/ Ord(c) >= 48 /\ Ord(c) <= 57
  \/ Ord(c) >= 65 /\ Ord(c) <= 90
  \/ Ord(c) = 95
  \/ Ord(c) >= 97 /\ Ord(c) <= 122

\* \s
IsSpace(c) == c \in {" ", "\n"}

\* DISABLE_COMMENT_RE.search(line): \bdead\s*:\s*disable
RestOfDisableComment(line, i) ==
  /\ i + 3 <= Len(line)
  /\ SubSeq(line, i, i + 3) = <<"d", "e", "a", "d">>
  /\ \E j \in (i + 4)..Len(line) :
       /\ line[j] = ":"
       /\ \A m \in (i + 4)..(j - 1) : IsSpace(line[m])
       /\ \E k \in (j + 1)..Len(line) :
            /\ k + 6 <= Len(line)
            /\ SubSeq(line, k, k + 6) = <<"d", "i", "s", "a", "b", "l", "e">>
            /\ \A m \in (j + 1)..(k - 1) : IsSpace(line[m])

DISABLE_COMMENT_RE_search(line) ==
  \E i \in 1..Len(line) :
    /\ line[i] = "d"
    /\ i = 1 \/ ~IsWordChar(line[i - 1])
    /\ RestOfDisableComment(line, i)

None == <<"None">>

\* ENTRYPOINT_RE.match(s): ^[^=]+=[^:]+:([a-zA-Z0-9_]+)$ ; group 1, or None.
\* The first class stops at the first "=", the second at the first ":" after
\* it, and $ also matches before one trailing newline.
ENTRYPOINT_RE_match(s) ==
  LET end == IF Len(s) > 0 /\ s[Len(s)] = "\n" THEN Len(s) - 1 ELSE Len(s)
      eqs == { i \in 1..Len(s) : s[i] = "=" }
  IN  IF eqs = {} THEN None
      ELSE
        LET e == CHOOSE i \in eqs : \A j \in eqs : i <= j
            cols == { i \in (e + 1)..Len(s) : s[i] = ":" }
        IN  IF e = 1 \/ cols = {} THEN None
            ELSE
              LET c == CHOOSE i \in cols : \A j \in cols : i <= j
              IN  IF /\ c > e + 1
                     /\ c < end
                     /\ \A i \in (c + 1)..end : IsWordChar(s[i])
                  THEN SubSeq(s, c + 1, end)
                  ELSE None

\* str.strip()
strip(s) ==
  LET ns == { i \in 1..Len(s) : ~IsSpace(s[i]) }
  IN  IF ns = {} THEN <<>>
      ELSE SubSeq(s, CHOOSE i \in ns : \A j \in ns : i <= j,
                     CHOOSE i \in ns : \A j \in ns : i >= j)

\* str.splitlines() (line breaks are "\n")
RECURSIVE splitlines(_)
splitlines(s) ==
  LET nl == { i \in 1..Len(s) : s[i] = "\n" }
  IN  IF s = <<>> THEN <<>>
      ELSE IF nl = {} THEN <<s>>
      ELSE LET i == CHOOSE a \in nl : \A b \in nl : a <= b
           IN  <<SubSeq(s, 1, i - 1)>> \o splitlines(SubSeq(s, i + 1, Len(s)))

\* --------------------------------------------------- names and files
sym_x == <<"x">>
sym_y == <<"y">>
sym_a == <<"a">>
sym_b == <<"b">>
sym_c == <<"c">>
sym_d == <<"d">>
sym_self == <<"s", "e", "l", "f">>
sym_cls == <<"c", "l", "s">>
sym_all == <<"_", "_", "a", "l", "l", "_", "_">>
NotImplementedError ==
  <<"N", "o", "t", "I", "m", "p", "l", "e", "m", "e", "n", "t", "e", "d",
    "E", "r", "r", "o", "r">>
AssertionError ==
  <<"A", "s", "s", "e", "r", "t", "i", "o", "n", "E", "r", "r", "o", "r">>

STUB_EXCEPTIONS == {AssertionError, NotImplementedError}

setup_py == <<"s", "e", "t", "u", "p", ".", "p", "y">>
setup_cfg == <<"s", "e", "t", "u", "p", ".", "c", "f", "g">>

\* what _filenames() yields, in the order of git ls-files: (filename, is_test),
\* for a run with --tests '^t/'
Files ==
  << [filename |-> <<"f", ".", "p", "y">>, is_test |-> FALSE],
     [filename |-> <<"g", ".", "p", "y">>, is_test |-> FALSE],
     [filename |-> <<"t", "/", "f", ".", "p", "y">>, is_test |-> TRUE] >>

\* ------------------------------------------------------------ syntax
\* ast nodes are records tagged with their class; a node's lineno is the
\* line of the statement it belongs to.
NoneNode == [type |-> "NoneType"]
Constant(v) == [type |-> "Constant", value |-> v]
PyStr(s) == [py |-> "str", s |-> s]
PyInt == [py |-> "int"]
PyEllipsis == [py |-> "ellipsis"]
Name(id, ctx) == [type |-> "Name", id |-> id, ctx |-> ctx]
Attribute(value, attr, ctx) ==
  [type |-> "Attribute", value |-> value, attr |-> attr, ctx |-> ctx]
Call(func) == [type |-> "Call", func |-> func]
Tuple(elts) == [type |-> "Tuple", elts |-> elts]

Expr(value) == [type |-> "Expr", value |-> value]
Pass == [type |-> "Pass"]
Return(value) == [type |-> "Return", value |-> value]
Raise(exc, cause) == [type |-> "Raise", exc |-> exc, cause |-> cause]
Assign(targets, value) == [type |-> "Assign", targets |-> targets, value |-> value]
alias(name, asname) == [name |-> name, asname |-> asname]
ImportFrom(names) == [type |-> "ImportFrom", names |-> names]
arg(a) == [arg |-> a]
arguments(posonlyargs, args, vararg, kwonlyargs, kwarg) ==
  [posonlyargs |-> posonlyargs, args |-> args, vararg |-> vararg,
   kwonlyargs |-> kwonlyargs, kwarg |-> kwarg]
FunctionDef(name, args, body) ==
  [type |-> "FunctionDef", name |-> name, args |-> args, body |-> body]

\* the statements a function body is drawn from
StubStmts ==
  { Pass,
    Expr(Constant(PyStr(<<"d", "o", "c">>))),
    Expr(Constant(PyEllipsis)),
    Raise(Name(NotImplementedError, "Load"), NoneNode),
    Raise(Call(Name(AssertionError, "Load")), NoneNode) }

OtherStmts ==
  { Expr(Constant(PyInt)),
    Raise(NoneNode, NoneNode),
    Raise(Name(sym_y, "Load"), NoneNode),
    Raise(Name(NotImplementedError, "Load"), Name(sym_y, "Load")),
    Raise(Call(Attribute(Name(sym_y, "Load"), NotImplementedError, "Load")),
          NoneNode),
    Return(Constant(PyInt)),
    Return(Name(sym_y, "Load")),
    Assign(<<Name(sym_y, "Store")>>, Constant(PyInt)) }

Signatures ==
  { arguments(<<>>, <<>>, NoneNode, <<>>, NoneNode),
    arguments(<<arg(sym_y)>>, <<>>, NoneNode, <<>>, NoneNode),
    arguments(<<>>, <<arg(sym_self)>>, NoneNode, <<>>, NoneNode),
    arguments(<<>>, <<arg(sym_a)>>, arg(sym_b), <<arg(sym_c)>>, arg(sym_d)) }

\* nested definitions: def x(): return y / def x(y): return 1
InnerDefs ==
  { FunctionDef(sym_x, arguments(<<>>, <<>>, NoneNode, <<>>, NoneNode),
                <<Return(Name(sym_y, "Load"))>>),
    FunctionDef(sym_x, arguments(<<>>, <<arg(sym_y)>>, NoneNode, <<>>, NoneNode),
                <<Return(Constant(PyInt))>>) }

\* bodies of one statement, or of one statement before or after a stub statement
Bodies ==
  { <<s>> : s \in StubStmts \cup OtherStmts \cup InnerDefs }
  \cup { <<p, s>> : p \in {Pass, Expr(Constant(PyStr(<<"d", "o", "c">>)))},
                    s \in StubStmts \cup OtherStmts }
  \cup { <<s, p>> : p \in {Pass}, s \in OtherStmts }

FunctionDefs ==
  { FunctionDef(sym_x, sig, body) : sig \in Signatures, body \in Bodies }

\* the statements of a module body
ModuleStmts ==
  { Assign(<<Name(sym_x, "Store")>>, Constant(PyInt)),
    Assign(<<Name(sym_y, "Store"), Name(sym_x, "Store")>>, Constant(PyInt)),
    Assign(<<Attribute(Name(sym_y, "Load"), sym_x, "Store")>>, Constant(PyInt)),
    Assign(<<Name(sym_all, "Store")>>, Tuple(<<Constant(PyStr(sym_x))>>)),
    Expr(Name(sym_x, "Load")),
    Expr(Name(sym_y, "Load")),
    Expr(Attribute(Constant(PyInt), sym_x, "Load")),
    ImportFrom(<<alias(sym_x, None)>>),
    ImportFrom(<<alias(sym_x, sym_y)>>) }
  \cup FunctionDefs

\* the comments of a file
Comments ==
  { <<"#", " ", "d", "e", "a", "d", ":", " ", "d", "i", "s", "a", "b", "l", "e">>,
    <<"#", "d", "e", "a", "d", ":", "d", "i", "s", "a", "b", "l", "e">>,
    <<"#", " ", "u", "n", "d", "e", "a", "d", ":", " ",
      "d", "i", "s", "a", "b", "l", "e">>,
    <<"#", " ", "t", "y", "p", "e", ":", " ", "x">>,
    <<"#", " ", "t", "y", "p", "e", ":", " ", "(", ")", " ", "-", ">", " ", "x">> }

\* string constants of setup.py, and values of setup.cfg's entry point keys
X_m_x == <<"X", "=", "m", ":", "x">>
SetupPyStrings ==
  { X_m_x,
    <<"m", ":", "x">>,
    <<"X", "=", "m", ":", "x", ".", "y">> }

SetupCfgValues ==
  { <<"\n">> \o X_m_x \o <<"\n", "m", ":", "y">>,
    <<"m", ".", "x">> }

\* setup.py: absent, or a script with one string constant
SetupPyFiles ==
  { [exists |-> FALSE, consts |-> <<>>] }
  \cup { [exists |-> TRUE, consts |-> <<s>>] : s \in SetupPyStrings }

\* setup.cfg: absent, without an [options.entry_points] section, or with
\* the section and one key, of the given value
SetupCfgFiles ==
  { [exists |-> FALSE, has_section |-> FALSE, values |-> <<>>],
    [exists |-> TRUE, has_section |-> FALSE, values |-> <<>>] }
  \cup { [exists |-> TRUE, has_section |-> TRUE, values |-> <<v>>] :
           v \in SetupCfgValues }

\* nodes a packaging file costs against MaxSteps
FileCost(f) == IF f.exists THEN 1 ELSE 0

\* nodes a statement costs against MaxSteps: itself and its body
RECURSIVE Cost(_)
RECURSIVE CostAll(_)
Cost(st) == IF st.type = "FunctionDef" THEN 1 + CostAll(st.body) ELSE 1
CostAll(body) == IF body = <<>> THEN 0 ELSE Cost(Head(body)) + CostAll(Tail(body))

\* the module statements of each cost
StmtsOfCost == [c \in 1..(MaxSteps + 1) |-> { st \in ModuleStmts : Cost(st) = c }]

\* ------------------------------------------------------------- state
VARIABLES
  pc,               \* where main() is
  setup_py_file,    \* the file setup.py
  setup_cfg_file,   \* the file setup.cfg
  track_args,       \* Visitor._track_args (--track-args)
  allowed_symbols,  \* the lines of --symbol-allowlist
  filename,         \* Visitor.filename
  is_test,          \* Visitor.is_test
  previous_scopes,  \* Visitor.previous_scopes
  scopes,           \* Visitor.scopes
  disabled,         \* Visitor.disabled
  stack,            \* the visit_FunctionDef calls in progress, innermost last
  scope_nodes,      \* for each of previous_scopes, the definition it was pushed for
  lineno,           \* line of the next statement of the current file
  file_idx,         \* index in Files of the last file _filenames() yielded
  comment_line,     \* line of the last comment token of the current file
  steps,            \* nodes visited so far
  stdout,           \* the lines printed
  retv,             \* main()'s return value
  type_comments     \* history: the names the type comments seen mention, and where

vars ==
  << pc, setup_py_file, setup_cfg_file, track_args, allowed_symbols, filename,
     is_test, previous_scopes, scopes, disabled, stack, scope_nodes, lineno,
     file_idx, comment_line, steps, stdout, retv, type_comments >>

\* ------------------------------------------------------------- Scope
\* a defaultdict(set) with no key
EmptyMap == [n \in {} |-> {}]

\* Scope(): reads and reads_tests are defaultdict(set); defines is one too,
\* kept as its items() in insertion order, which main() iterates
Scope == [reads |-> EmptyMap, defines |-> <<>>, reads_tests |-> EmptyMap]

\* m[k].add(loc) on a defaultdict(set)
MapAdd(m, k, loc) ==
  [n \in DOMAIN m \cup {k} |->
     IF n = k THEN (IF k \in DOMAIN m THEN m[k] ELSE {}) \cup {loc} ELSE m[n]]

\* d[k].add(loc) on the items of a defaultdict(set)
ItemsAdd(d, k, loc) ==
  IF \E i \in DOMAIN d : d[i].k = k
  THEN [i \in DOMAIN d |-> IF d[i].k = k THEN [d[i] EXCEPT !.v = @ \cup {loc}] ELSE d[i]]
  ELSE Append(d, [k |-> k, v |-> {loc}])

Keys(d) == { d[i].k : i \in DOMAIN d }

Get(d, k) == IF k \in Keys(d) THEN (CHOOSE i \in Range(d) : i.k = k).v ELSE {}

\* -------------------------------------------------------------- Visitor
\* the file context of a call: (self.filename, self.is_test)
Ctx == [filename |-> filename, is_test |-> is_test]

_file_line(fname, line) == fname \o <<":">> \o Str(line)

definition_str(ctx, line) == _file_line(ctx.filename, line)

\* Visitor.define
define(S, ctx, name, line) ==
  IF ~ctx.is_test
  THEN [S EXCEPT ![Len(S)].defines = ItemsAdd(@, name, definition_str(ctx, line))]
  ELSE S

\* Visitor.read; readInnermostOnly and readOutermostOnly are the variants that
\* record the read in the innermost scope only, and in the module scope only
readOutermostOnly(S, ctx, name, line) ==
  [i \in DOMAIN S |->
     IF i > 1 THEN S[i]
     ELSE IF ctx.is_test
     THEN [S[i] EXCEPT !.reads_tests = MapAdd(@, name, definition_str(ctx, line))]
     ELSE [S[i] EXCEPT !.reads = MapAdd(@, name, definition_str(ctx, line))]]

readInnermostOnly(S, ctx, name, line) ==
  [i \in DOMAIN S |->
     IF i < Len(S) THEN S[i]
     ELSE IF ctx.is_test
     THEN [S[i] EXCEPT !.reads_tests = MapAdd(@, name, definition_str(ctx, line))]
     ELSE [S[i] EXCEPT !.reads = MapAdd(@, name, definition_str(ctx, line))]]

read(S, ctx, name, line) ==
  [i \in DOMAIN S |->
     IF ctx.is_test
     THEN [S[i] EXCEPT !.reads_tests = MapAdd(@, name, definition_str(ctx, line))]
     ELSE [S[i] EXCEPT !.reads = MapAdd(@, name, definition_str(ctx, line))]]

\* visit() of an expression: visit_Name, visit_Attribute, and generic_visit
\* of their children and of the other expressions
RECURSIVE visit_expr(_, _, _, _)
RECURSIVE visit_exprs(_, _, _, _)
visit_expr(S, ctx, e, line) ==
  CASE e.type = "Name" ->
         IF e.ctx = "Load" THEN read(S, ctx, e.id, line) ELSE S
    [] e.type = "Attribute" ->
         visit_expr(IF e.ctx = "Load" THEN read(S, ctx, e.attr, line) ELSE S,
                    ctx, e.value, line)
    [] e.type = "Call" -> visit_expr(S, ctx, e.func, line)
    [] e.type = "Tuple" -> visit_exprs(S, ctx, e.elts, line)
    [] OTHER -> S
visit_exprs(S, ctx, es, line) ==
  IF es = <<>> THEN S
  ELSE visit_exprs(visit_expr(S, ctx, Head(es), line), ctx, Tail(es), line)

\* visit_ImportFrom
RECURSIVE visit_ImportFrom_names(_, _, _, _)
visit_ImportFrom_names(S, ctx, names, line) ==
  IF names = <<>> THEN S
  ELSE LET name == Head(names)
           S1 == read(S, ctx, name.name, line)
           S2 == IF name.asname # None /\ name.asname # <<>>
                 THEN define(S1, ctx, name.asname, line) ELSE S1
       IN  visit_ImportFrom_names(S2, ctx, Tail(names), line)

visit_ImportFrom(S, ctx, node, line) ==
  visit_ImportFrom_names(S, ctx, node.names, line)

\* visit_Assign
RECURSIVE define_targets(_, _, _, _)
define_targets(S, ctx, targets, line) ==
  IF targets = <<>> THEN S
  ELSE define_targets(
         IF Head(targets).type = "Name"
         THEN define(S, ctx, Head(targets).id, line) ELSE S,
         ctx, Tail(targets), line)

RECURSIVE read_all_elts(_, _, _, _)
read_all_elts(S, ctx, elts, line) ==
  IF elts = <<>> THEN S
  ELSE read_all_elts(
         IF Head(elts).type = "Constant" /\ Head(elts).value.py = "str"
         THEN read(S, ctx, Head(elts).value.s, line) ELSE S,
         ctx, Tail(elts), line)

visit_Assign(S, ctx, node, line) ==
  LET S1 == define_targets(S, ctx, node.targets, line)
      S2 == IF /\ Len(node.targets) = 1
               /\ node.targets[1].type = "Name"
               /\ node.targets[1].id = sym_all
               /\ node.value.type \in {"Tuple", "List"}
            THEN read_all_elts(S1, ctx, node.value.elts, line)
            ELSE S1
  IN  visit_expr(visit_exprs(S2, ctx, node.targets, line), ctx, node.value, line)

\* visit() of a statement other than a function definition
visit_stmt(S, ctx, st, line) ==
  CASE st.type = "ImportFrom" -> visit_ImportFrom(S, ctx, st, line)
    [] st.type = "Assign" -> visit_Assign(S, ctx, st, line)
    [] st.type = "Expr" -> visit_expr(S, ctx, st.value, line)
    [] st.type = "Return" -> visit_expr(S, ctx, st.value, line)
    [] st.type = "Raise" ->
         visit_expr(visit_expr(S, ctx, st.exc, line), ctx, st.cause, line)
    [] OTHER -> S

\* one statement of _is_stub_function's loop: TRUE for continue;
\* IsStubStmtIgnoringCause is the variant that does not look at stmt.cause
IsStubStmtIgnoringCause(stmt) ==
  \/ /\ stmt.type = "Expr"
     /\ stmt.value.type = "Constant"
     /\ stmt.value.value.py \in {"str", "ellipsis"}
  \/ stmt.type = "Pass"
  \/ /\ stmt.type = "Raise"
     /\ \/ stmt.exc.type = "Name" /\ stmt.exc.id \in STUB_EXCEPTIONS
        \/ /\ stmt.exc.type = "Call"
           /\ stmt.exc.func.type = "Name"
           /\ stmt.exc.func.id \in STUB_EXCEPTIONS

IsStubStmt(stmt) ==
  \/ /\ stmt.type = "Expr"
     /\ stmt.value.type = "Constant"
     /\ stmt.value.value.py \in {"str", "ellipsis"}
  \/ stmt.type = "Pass"
  \/ /\ stmt.type = "Raise"
     /\ stmt.cause = NoneNode
     /\ \/ stmt.exc.type = "Name" /\ stmt.exc.id \in STUB_EXCEPTIONS
        \/ /\ stmt.exc.type = "Call"
           /\ stmt.exc.func.type = "Name"
           /\ stmt.exc.func.id \in STUB_EXCEPTIONS

\* Visitor._is_stub_function
RECURSIVE IsStubBody(_)
IsStubBody(body) ==
  IF body = <<>> THEN TRUE
  ELSE IF IsStubStmt(Head(body)) THEN IsStubBody(Tail(body))
  ELSE FALSE

_is_stub_function(node) == IsStubBody(node.body)

\* the parameters visit_FunctionDef defines, in its order; None is skipped
TrackedArgs(args) ==
  LET opt(a) == IF a = NoneNode THEN <<>> ELSE <<a>>
  IN  args.posonlyargs \o args.args \o opt(args.vararg)
        \o args.kwonlyargs \o opt(args.kwarg)

RECURSIVE define_args(_, _, _, _)
define_args(S, ctx, as, line) ==
  IF as = <<>> THEN S
  ELSE define_args(define(S, ctx, Head(as).arg, line), ctx, Tail(as), line)

\* ------------------------------------------------------- entry points
\* ParsesEntryPoints.visit over the string constants of setup.py; constant
\* i is on line FirstLine + i - 1
RECURSIVE visit_Constants(_, _, _, _)
visit_Constants(S, ctx, consts, line) ==
  IF consts = <<>> THEN S
  ELSE LET match == ENTRYPOINT_RE_match(Head(consts))
       IN  visit_Constants(
             IF match # None THEN read(S, ctx, match, line) ELSE S,
             ctx, Tail(consts), line + 1)

\* the loop of parse_entry_points_setup_cfg over one value's lines; the
\* synthesized node has lineno 1
RECURSIVE read_entry_lines(_, _, _)
read_entry_lines(S, ctx, lines) ==
  IF lines = <<>> THEN S
  ELSE LET match == ENTRYPOINT_RE_match(Head(lines))
       IN  read_entry_lines(
             IF match # None THEN read(S, ctx, match, 1) ELSE S,
             ctx, Tail(lines))

\* a variant of the loop below that matches each value as a whole
RECURSIVE read_entry_valuesUnsplit(_, _, _)
read_entry_valuesUnsplit(S, ctx, values) ==
  IF values = <<>> THEN S
  ELSE read_entry_valuesUnsplit(
         read_entry_lines(S, ctx, <<Head(values)>>), ctx, Tail(values))

\* `for k, v in section.items()`
RECURSIVE read_entry_values(_, _, _)
read_entry_values(S, ctx, values) ==
  IF values = <<>> THEN S
  ELSE read_entry_values(
         read_entry_lines(S, ctx, splitlines(strip(Head(values)))),
         ctx, Tail(values))

\* ------------------------------------------------------------ main()
never_read(k, v) == [kind |-> "never read", k |-> k, locs |-> sorted(v)]
only_tests(k, v) ==
  [kind |-> "only referenced in tests", k |-> k, locs |-> sorted(v)]
unused_disable(ignore) == [kind |-> "unused disable", loc |-> ignore]

\* variants of the loop body below, against which the properties are tested:
\* one that never looks at scope.reads, one that skips `v - visitor.disabled`,
\* one that discards the markers of every definition, read or not
ReconcileItemIgnoringReads(scope, item, acc) ==
  LET k == item.k
      unread == TRUE
      ui == IF unread THEN acc.unused_ignores \ item.v ELSE acc.unused_ignores
      v == IF unread THEN item.v \ disabled ELSE item.v
      acc1 == [acc EXCEPT !.unused_ignores = ui]
  IN  IF k \in acc.allowed_symbols THEN acc1
      ELSE IF startswith(k, <<"_", "_">>) /\ endswith(k, <<"_", "_">>) THEN acc1
      ELSE IF k \in {sym_cls, sym_self} THEN acc1
      ELSE IF unread /\ v = {} THEN acc1
      ELSE IF unread /\ k \notin DOMAIN scope.reads_tests
      THEN [acc1 EXCEPT !.stdout = Append(@, never_read(k, v)), !.retv = 1]
      ELSE IF unread
      THEN [acc1 EXCEPT !.stdout = Append(@, only_tests(k, v)), !.retv = 1]
      ELSE acc1

ReconcileItemKeepingDisabled(scope, item, acc) ==
  LET k == item.k
      unread == k \notin DOMAIN scope.reads
      ui == IF unread THEN acc.unused_ignores \ item.v ELSE acc.unused_ignores
      v == item.v
      acc1 == [acc EXCEPT !.unused_ignores = ui]
  IN  IF k \in acc.allowed_symbols THEN acc1
      ELSE IF startswith(k, <<"_", "_">>) /\ endswith(k, <<"_", "_">>) THEN acc1
      ELSE IF k \in {sym_cls, sym_self} THEN acc1
      ELSE IF unread /\ v = {} THEN acc1
      ELSE IF unread /\ k \notin DOMAIN scope.reads_tests
      THEN [acc1 EXCEPT !.stdout = Append(@, never_read(k, v)), !.retv = 1]
      ELSE IF unread
      THEN [acc1 EXCEPT !.stdout = Append(@, only_tests(k, v)), !.retv = 1]
      ELSE acc1

ReconcileItemDiscardingAll(scope, item, acc) ==
  LET k == item.k
      unread == k \notin DOMAIN scope.reads
      ui == acc.unused_ignores \ item.v
      v == IF unread THEN item.v \ disabled ELSE item.v
      acc1 == [acc EXCEPT !.unused_ignores = ui]
  IN  IF k \in acc.allowed_symbols THEN acc1
      ELSE IF startswith(k, <<"_", "_">>) /\ endswith(k, <<"_", "_">>) THEN acc1
      ELSE IF k \in {sym_cls, sym_self} THEN acc1
      ELSE IF unread /\ v = {} THEN acc1
      ELSE IF unread /\ k \notin DOMAIN scope.reads_tests
      THEN [acc1 EXCEPT !.stdout = Append(@, never_read(k, v)), !.retv = 1]
      ELSE IF unread
      THEN [acc1 EXCEPT !.stdout = Append(@, only_tests(k, v)), !.retv = 1]
      ELSE acc1

\* one iteration of `for k, v in scope.defines.items()`; acc holds main()'s
\* locals: allowed_symbols, unused_ignores, retv, and the lines printed
ReconcileItem(scope, item, acc) ==
  LET k == item.k
      unread == k \notin DOMAIN scope.reads
      ui == IF unread THEN acc.unused_ignores \ item.v ELSE acc.unused_ignores
      v == IF unread THEN item.v \ disabled ELSE item.v
      acc1 == [acc EXCEPT !.unused_ignores = ui]
  IN  IF k \in acc.allowed_symbols THEN acc1
      ELSE IF startswith(k, <<"_", "_">>) /\ endswith(k, <<"_", "_">>) THEN acc1
      ELSE IF k \in {sym_cls, sym_self} THEN acc1
      ELSE IF unread /\ v = {} THEN acc1
      ELSE IF unread /\ k \notin DOMAIN scope.reads_tests
      THEN [acc1 EXCEPT !.stdout = Append(@, never_read(k, v)), !.retv = 1]
      ELSE IF unread
      THEN [acc1 EXCEPT !.stdout = Append(@, only_tests(k, v)), !.retv = 1]
      ELSE acc1

\* a variant of the loop below that takes the names in the reverse order
RECURSIVE ReconcileItemsReversed(_, _, _)
ReconcileItemsReversed(scope, items, acc) ==
  IF items = <<>> THEN acc
  ELSE ReconcileItem(scope, Head(items),
                     ReconcileItemsReversed(scope, Tail(items), acc))

\* `for k, v in scope.defines.items()`
RECURSIVE ReconcileItems(_, _, _)
ReconcileItems(scope, items, acc) ==
  IF items = <<>> THEN acc
  ELSE ReconcileItems(scope, Tail(items), ReconcileItem(scope, Head(items), acc))

\* `for scope in visitor.previous_scopes`
RECURSIVE ReconcileScopes(_, _)
ReconcileScopes(ss, acc) ==
  IF ss = <<>> THEN acc
  ELSE ReconcileScopes(Tail(ss), ReconcileItems(Head(ss), Head(ss).defines, acc))

\* a variant of the loop below that leaves retv alone
RECURSIVE ReportIgnoresKeepingRetv(_, _)
ReportIgnoresKeepingRetv(ignores, acc) ==
  IF ignores = <<>> THEN acc
  ELSE ReportIgnoresKeepingRetv(
         Tail(ignores),
         [acc EXCEPT !.stdout = Append(@, unused_disable(Head(ignores)))])

\* `for ignore in sorted(unused_ignores)`
RECURSIVE ReportIgnores(_, _)
ReportIgnores(ignores, acc) ==
  IF ignores = <<>> THEN acc
  ELSE ReportIgnores(
         Tail(ignores),
         [acc EXCEPT !.stdout = Append(@, unused_disable(Head(ignores))),
                     !.retv = 1])

\* ----------------------------------------------------------- actions
Init ==
  /\ pc = "setup_py"
  /\ setup_py_file \in SetupPyFiles
  /\ setup_cfg_file \in SetupCfgFiles
  /\ track_args \in BOOLEAN
  /\ allowed_symbols = {}
  /\ filename = <<>>
  /\ is_test = FALSE
  /\ previous_scopes = <<>>
  /\ scopes = <<Scope>>
  /\ disabled = {}
  /\ stack = <<>>
  /\ scope_nodes = <<>>
  /\ lineno = FirstLine
  /\ file_idx = 0
  /\ comment_line = 0
  /\ steps = 0
  /\ stdout = <<>>
  /\ retv = 0
  /\ type_comments = {}

\* parse_entry_points_setup_py
ParseEntryPointsSetupPy ==
  /\ pc = "setup_py"
  /\ pc' = "setup_cfg"
  /\ steps' = steps + FileCost(setup_py_file)
  /\ scopes' =
       IF ~setup_py_file.exists THEN scopes
       ELSE visit_Constants(scopes, [filename |-> setup_py, is_test |-> FALSE],
                            setup_py_file.consts, FirstLine)
  /\ UNCHANGED << type_comments, setup_py_file, setup_cfg_file, track_args, allowed_symbols,
                  filename, is_test, previous_scopes, disabled, stack,
                  scope_nodes, lineno, file_idx, comment_line, stdout, retv >>

\* parse_entry_points_setup_cfg
ParseEntryPointsSetupCfg ==
  /\ pc = "setup_cfg"
  /\ pc' = "files"
  /\ steps' = steps + FileCost(setup_cfg_file)
  /\ scopes' =
       IF ~setup_cfg_file.exists THEN scopes
       ELSE IF ~setup_cfg_file.has_section THEN scopes
       ELSE read_entry_values(
              scopes, [filename |-> setup_cfg, is_test |-> FALSE],
              setup_cfg_file.values)
  /\ UNCHANGED << type_comments, setup_py_file, setup_cfg_file, track_args, allowed_symbols,
                  filename, is_test, previous_scopes, disabled, stack,
                  scope_nodes, lineno, file_idx, comment_line, stdout, retv >>

\* the next (filename, is_test) of _filenames(), and file_ctx's entry
EnterFile ==
  /\ pc = "files"
  /\ steps < MaxSteps
  /\ \E i \in (file_idx + 1)..Len(Files) :
       /\ file_idx' = i
       /\ filename' = Files[i].filename
       /\ is_test' = Files[i].is_test
  /\ lineno' = FirstLine
  /\ comment_line' = FirstLine - 1
  /\ pc' = "visit"
  /\ UNCHANGED << type_comments, setup_py_file, setup_cfg_file, scope_nodes, track_args, allowed_symbols, previous_scopes, scopes,
                  disabled, stack, steps, stdout, retv >>

\* the statements that may be visited next: the next one of the innermost
\* function body in progress, or any next statement of the module
NextStmts ==
  IF stack = <<>>
  THEN UNION { StmtsOfCost[c] : c \in 1..(MaxSteps - steps) }
  ELSE LET top == stack[Len(stack)]
       IN  IF top.next <= Len(top.node.body)
           THEN {top.node.body[top.next]} ELSE {}

StepsAfter(st) == IF stack = <<>> THEN steps + Cost(st) ELSE steps

StackAfter ==
  IF stack = <<>> THEN stack
  ELSE [stack EXCEPT ![Len(stack)].next = @ + 1]

\* visitor.visit of a statement that is no function definition
VisitStmt ==
  /\ pc = "visit"
  /\ \E st \in NextStmts :
       /\ st.type # "FunctionDef"
       /\ scopes' = visit_stmt(scopes, Ctx, st, lineno)
       /\ steps' = StepsAfter(st)
  /\ stack' = StackAfter
  /\ lineno' = lineno + 1
  /\ UNCHANGED << type_comments, pc, setup_py_file, setup_cfg_file, scope_nodes, track_args, allowed_symbols, filename, is_test,
                  previous_scopes, disabled, file_idx, comment_line, stdout,
                  retv >>

\* visit_FunctionDef up to generic_visit: the definition, the new scope, the
\* parameters; PushScopeNoArgs is the variant that never records a parameter
PushScopeNoArgs(S, ctx, node, line) ==
  Append(define(S, ctx, node.name, line), Scope)

PushScope(S, ctx, node, line) ==
  LET S1 == Append(define(S, ctx, node.name, line), Scope)
  IN  IF track_args /\ ~_is_stub_function(node)
      THEN define_args(S1, ctx, TrackedArgs(node.args), line)
      ELSE S1

EnterFunctionDef ==
  /\ pc = "visit"
  /\ \E st \in NextStmts :
       /\ st.type = "FunctionDef"
       /\ scopes' = PushScope(scopes, Ctx, st, lineno)
       /\ steps' = StepsAfter(st)
       /\ stack' = Append(StackAfter, [node |-> st, next |-> 1, ctx |-> Ctx,
                                       lineno |-> lineno])
  /\ lineno' = lineno + 1
  /\ UNCHANGED << type_comments, pc, setup_py_file, setup_cfg_file, scope_nodes, track_args, allowed_symbols, filename, is_test,
                  previous_scopes, disabled, file_idx, comment_line, stdout,
                  retv >>

\* the end of visit_FunctionDef: scope()'s finally;
\* LeaveFunctionDefDroppingScope is the variant that pops the scope without
\* keeping it
LeaveFunctionDefDroppingScope ==
  /\ pc = "visit"
  /\ stack # <<>>
  /\ stack[Len(stack)].next > Len(stack[Len(stack)].node.body)
  /\ stack' = SubSeq(stack, 1, Len(stack) - 1)
  /\ scopes' = SubSeq(scopes, 1, Len(scopes) - 1)
  /\ UNCHANGED << type_comments, pc, setup_py_file, setup_cfg_file, track_args,
                  allowed_symbols, filename, is_test, previous_scopes,
                  scope_nodes, disabled, lineno, file_idx, comment_line, steps,
                  stdout, retv >>

LeaveFunctionDef ==
  /\ pc = "visit"
  /\ stack # <<>>
  /\ stack[Len(stack)].next > Len(stack[Len(stack)].node.body)
  /\ stack' = SubSeq(stack, 1, Len(stack) - 1)
  /\ previous_scopes' = Append(previous_scopes, scopes[Len(scopes)])
  /\ scopes' = SubSeq(scopes, 1, Len(scopes) - 1)
  /\ scope_nodes' = Append(scope_nodes, stack[Len(stack)])
  /\ UNCHANGED << type_comments, pc, setup_py_file, setup_cfg_file, track_args, allowed_symbols, filename, is_test,
                  disabled, lineno, file_idx, comment_line, steps, stdout,
                  retv >>

\* s in reverse order
Reverse(s) == [i \in DOMAIN s |-> s[Len(s) + 1 - i]]

\* an exception raised while a function body is traversed: the finally of
\* every scope() in progress runs, innermost first, then the finally of
\* file_ctx, and the exception leaves main()
TraversalFails ==
  /\ pc = "visit"
  /\ stack # <<>>
  /\ pc' = "failed"
  /\ stack' = <<>>
  /\ previous_scopes' = previous_scopes \o Reverse(SubSeq(scopes, 2, Len(scopes)))
  /\ scopes' = SubSeq(scopes, 1, 1)
  /\ scope_nodes' = scope_nodes \o Reverse(stack)
  /\ filename' = <<>>
  /\ is_test' = FALSE
  /\ UNCHANGED << type_comments, setup_py_file, setup_cfg_file, track_args,
                  allowed_symbols, disabled, lineno, file_idx, comment_line,
                  steps, stdout, retv >>

\* Visitor.visit_comment
visit_comment(D, ctx, line, text) ==
  IF DISABLE_COMMENT_RE_search(text)
  THEN D \cup {_file_line(ctx.filename, line)}
  ELSE D

\* the words of s: its maximal runs of [a-zA-Z0-9_]
Words(s) ==
  { SubSeq(s, i, j) : <<i, j>> \in
      { ij \in (1..Len(s)) \X (1..Len(s)) :
          /\ ij[1] <= ij[2]
          /\ \A n \in ij[1]..ij[2] : IsWordChar(s[n])
          /\ ij[1] = 1 \/ ~IsWordChar(s[ij[1] - 1])
          /\ ij[2] = Len(s) \/ ~IsWordChar(s[ij[2] + 1]) } }

\* the names a comment mentions as types: the words of the annotation of a
\* comment `# type: T` or `# type: (params) -> T`, none for `# type: ignore`
TypeCommentNames(text) ==
  LET prefix == <<"#", " ", "t", "y", "p", "e", ":">>
      rest == strip(SubSeq(text, Len(prefix) + 1, Len(text)))
  IN  IF ~startswith(text, prefix) THEN {}
      ELSE IF startswith(rest, <<"i", "g", "n", "o", "r", "e">>) THEN {}
      ELSE Words(rest)

\* what a comment token mentions as types, with the place of the comment
TypeCommentMentions(ctx, line, text) ==
  { [name |-> n, loc |-> _file_line(ctx.filename, line), is_test |-> ctx.is_test] :
      n \in TypeCommentNames(text) }

\* one COMMENT token of the tokenize loop; tokens come in line order; the
\* names its type annotation mentions are kept in type_comments
VisitComment ==
  /\ pc \in {"visit", "tokenize"}
  /\ stack = <<>>
  /\ steps < MaxSteps
  /\ pc' = "tokenize"
  /\ \E line \in (comment_line + 1)..lineno, text \in Comments :
       /\ comment_line' = line
       /\ disabled' = visit_comment(disabled, Ctx, line, text)
       /\ type_comments' = type_comments \cup TypeCommentMentions(Ctx, line, text)
  /\ steps' = steps + 1
  /\ UNCHANGED << setup_py_file, setup_cfg_file, scope_nodes, track_args, allowed_symbols, filename, is_test,
                  previous_scopes, scopes, stack, lineno, file_idx, stdout,
                  retv >>

\* file_ctx's finally, after the last token of the file
LeaveFile ==
  /\ pc \in {"visit", "tokenize"}
  /\ stack = <<>>
  /\ lineno > FirstLine
  /\ filename' = <<>>
  /\ is_test' = FALSE
  /\ pc' = "files"
  /\ UNCHANGED << type_comments, setup_py_file, setup_cfg_file, scope_nodes, track_args, allowed_symbols, previous_scopes, scopes,
                  disabled, stack, lineno, file_idx, comment_line, steps,
                  stdout, retv >>

\* main() after the loop over the files: dead.py lines 331 to 364; the
\* allowlist, which main() reads before the traversal and uses only here, is
\* drawn here
Reconcile ==
  /\ pc = "files"
  /\ pc' = "done"
  /\ allowed_symbols' \in {{}, {sym_y}}
  /\ scope_nodes' = Append(scope_nodes, [node |-> NoneNode])
  /\ previous_scopes' = Append(previous_scopes, scopes[Len(scopes)])
  /\ scopes' = SubSeq(scopes, 1, Len(scopes) - 1)
  /\ LET acc0 == [allowed_symbols |-> allowed_symbols', unused_ignores |-> disabled,
                  stdout |-> <<>>, retv |-> 0]
         acc1 == ReconcileScopes(previous_scopes', acc0)
         acc2 == ReportIgnores(sorted(acc1.unused_ignores), acc1)
     IN  /\ stdout' = acc2.stdout
         /\ retv' = acc2.retv
  /\ UNCHANGED << type_comments, setup_py_file, setup_cfg_file, track_args, filename, is_test, disabled, stack, lineno,
                  file_idx, comment_line, steps >>

Next ==
  \/ ParseEntryPointsSetupPy
  \/ ParseEntryPointsSetupCfg
  \/ EnterFile
  \/ VisitStmt
  \/ EnterFunctionDef
  \/ LeaveFunctionDef
  \/ TraversalFails
  \/ VisitComment
  \/ LeaveFile
  \/ Reconcile

Spec == Init /\ [][Next]_vars

\* ====================================================================
\* Properties.  They are stated about a completed run (pc = "done"): then
\* previous_scopes holds every scope, the module scope last, and stdout and
\* retv are what main() printed and returned.
Done == pc = "done"

ScopeIds == DOMAIN previous_scopes

ModuleId == Len(previous_scopes)

\* the definition locations of k in scope s
Defs(s, k) == Get(previous_scopes[s].defines, k)

\* the names defined anywhere
DefinedNames == UNION { Keys(previous_scopes[s].defines) : s \in ScopeIds }

\* the scopes that define k
DefScopes(k) == { s \in ScopeIds : k \in Keys(previous_scopes[s].defines) }

\* every (scope, location) where k is defined
AllDefs(k) == UNION { { <<s, loc>> : loc \in Defs(s, k) } : s \in DefScopes(k) }

AllDefLocs(k) == UNION { Defs(s, k) : s \in ScopeIds }

\* k is read somewhere in a file that is no test file / that is a test file
ReadInCode(k) == \E s \in ScopeIds : k \in DOMAIN previous_scopes[s].reads
ReadInTests(k) == \E s \in ScopeIds : k \in DOMAIN previous_scopes[s].reads_tests

\* k is read in non-test code while scope s is active
ReadInScope(s, k) == k \in DOMAIN previous_scopes[s].reads

\* names main() never reports
IsDunder(k) ==
  /\ Len(k) >= 2
  /\ k[1] = "_" /\ k[2] = "_" /\ k[Len(k) - 1] = "_" /\ k[Len(k)] = "_"
Exempt(k) == k \in allowed_symbols \/ IsDunder(k) \/ k = sym_self \/ k = sym_cls

\* the printed lines about symbol k, of one kind, and about markers
SymbolLines == { i \in DOMAIN stdout : stdout[i].kind # "unused disable" }
LinesOf(k) == { i \in SymbolLines : stdout[i].k = k }
LinesOfKind(k, kind) == { i \in LinesOf(k) : stdout[i].kind = kind }
MarkerLines == { i \in DOMAIN stdout : stdout[i].kind = "unused disable" }

\* locs lists exactly the set v, in ascending (lexicographic) order, each
\* location once
ListsSorted(locs, v) ==
  /\ Range(locs) = v
  /\ \A i, j \in DOMAIN locs : i < j => StrLt(locs[i], locs[j])

\* the scopes of k whose definitions are not all disabled
Reportable(k) == { s \in DefScopes(k) : Defs(s, k) \ disabled # {} }

\* C1 (as stated): every symbol that is defined and never read anywhere gets
\* a "never read" line that lists all of its definition locations, sorted,
\* each once.
C1_AsStated ==
  Done =>
    \A k \in DefinedNames :
      (~ReadInCode(k) /\ ~ReadInTests(k)) =>
        \E i \in LinesOfKind(k, "never read") :
          ListsSorted(stdout[i].locs, AllDefLocs(k))

\* C1 (amended): a symbol that is defined and never read anywhere, and is
\* neither in the allowlist, nor a dunder name, nor cls/self, gets one
\* "never read" line per scope that defines it at a location without a
\* disable marker; the line lists that scope's locations without a disable
\* marker, sorted as strings, each once; it gets no other line.
C1_NeverRead ==
  Done =>
    \A k \in DefinedNames :
      (~ReadInCode(k) /\ ~ReadInTests(k) /\ ~Exempt(k)) =>
        /\ \A s \in Reportable(k) :
             \E i \in LinesOfKind(k, "never read") :
               ListsSorted(stdout[i].locs, Defs(s, k) \ disabled)
        /\ Cardinality(LinesOf(k)) = Cardinality(Reportable(k))
        /\ LinesOf(k) = LinesOfKind(k, "never read")

\* a symbol defined on lines 9 and 10 of f.py and never read: the line lists
\* f.py:10 before f.py:9
C1_Witness ==
  /\ Done
  /\ \E i \in SymbolLines :
       /\ stdout[i].kind = "never read"
       /\ Len(stdout[i].locs) = 2
       /\ ~ReadInCode(stdout[i].k) /\ ~ReadInTests(stdout[i].k)

\* the function scopes (every scope but the module's) of k whose
\* definitions are not all disabled
ReportableLocal(k) == Reportable(k) \ {ModuleId}

\* C2 (as stated): a symbol that is defined and whose only reads are in test
\* files gets an "only referenced in tests" line and no "never read" line.
C2_AsStated ==
  Done =>
    \A k \in DefinedNames :
      (~ReadInCode(k) /\ ReadInTests(k)) =>
        /\ LinesOfKind(k, "only referenced in tests") # {}
        /\ LinesOfKind(k, "never read") = {}

\* C2 (amended): a symbol defined at module level at a location without a
\* disable marker, whose only reads are in test files and which is neither
\* in the allowlist, nor a dunder name, nor cls/self, gets exactly one "only
\* referenced in tests" line, listing its module-level locations without a
\* disable marker; "never read" lines for it are printed only for its
\* definitions local to a function (one per function scope), which the reads
\* of other files never reach.
C2_OnlyInTests ==
  Done =>
    \A k \in Keys(previous_scopes[ModuleId].defines) :
      (~ReadInCode(k) /\ ReadInTests(k) /\ ~Exempt(k)
         /\ Defs(ModuleId, k) \ disabled # {}) =>
        /\ \E i \in LinesOfKind(k, "only referenced in tests") :
             ListsSorted(stdout[i].locs, Defs(ModuleId, k) \ disabled)
        /\ Cardinality(LinesOfKind(k, "only referenced in tests")) = 1
        /\ Cardinality(LinesOfKind(k, "never read")) =
             Cardinality(ReportableLocal(k))

\* a module-level symbol read only by the test file t/f.py is reported as
\* only referenced in tests
C2_Witness ==
  /\ Done
  /\ \E k \in Keys(previous_scopes[ModuleId].defines) :
       /\ ~ReadInCode(k) /\ ReadInTests(k)
       /\ LinesOfKind(k, "only referenced in tests") # {}
       /\ LinesOfKind(k, "never read") = {}

\* C3 (as stated): a symbol defined exactly once and read at least once in
\* non-test code gets no diagnostic.
C3_AsStated ==
  Done =>
    \A k \in DefinedNames :
      (Cardinality(AllDefs(k)) = 1 /\ ReadInCode(k)) => LinesOf(k) = {}

\* C3 (amended): a symbol defined exactly once and read at least once in
\* non-test code while the scope of its definition is active (anywhere in
\* the project and in any file order for a module-level definition, inside
\* the function for a parameter or a local) gets no diagnostic.
C3_UsedOnce ==
  Done =>
    \A k \in DefinedNames :
      \A s \in ScopeIds :
        (Cardinality(AllDefs(k)) = 1 /\ Defs(s, k) # {} /\ ReadInScope(s, k)) =>
          LinesOf(k) = {}

\* a symbol defined once in g.py and read only in f.py, which is traversed
\* first, is not reported
C3_Witness ==
  /\ Done
  /\ \E k \in DefinedNames :
       /\ ~Exempt(k)
       /\ Cardinality(AllDefs(k)) = 1
       /\ startswith(CHOOSE loc \in AllDefLocs(k) : TRUE, <<"g">>)
       /\ ReadInScope(ModuleId, k)
       /\ \A loc \in previous_scopes[ModuleId].reads[k] : startswith(loc, <<"f">>)
       /\ LinesOf(k) = {}

\* the marker at location m coincides with the location of an unused
\* definition: a definition of a name that is not read in non-test code
\* while the scope of the definition is active
Coincides(m) ==
  \E s \in ScopeIds : \E k \in Keys(previous_scopes[s].defines) :
    m \in Defs(s, k) /\ ~ReadInScope(s, k)

\* the locations reported as unused disable comments
ReportedMarkers == { stdout[i].loc : i \in MarkerLines }

\* C4: a disable marker at the location of an otherwise unused definition
\* removes that location from the report: no line lists it; a symbol whose
\* definition locations are all disabled has no line; a reportable symbol
\* with other locations left in the scope is reported with exactly those;
\* and the marker is not reported as an unused disable comment.
C4_MarkerSuppresses ==
  Done =>
    \A m \in disabled : \A s \in ScopeIds :
      \A k \in Keys(previous_scopes[s].defines) :
        (m \in Defs(s, k) /\ ~ReadInScope(s, k)) =>
          /\ \A i \in SymbolLines : m \notin Range(stdout[i].locs)
          /\ m \notin ReportedMarkers
          /\ AllDefLocs(k) \subseteq disabled => LinesOf(k) = {}
          /\ (~Exempt(k) /\ Defs(s, k) \ disabled # {}) =>
               \E i \in LinesOf(k) :
                 ListsSorted(stdout[i].locs, Defs(s, k) \ disabled)

\* a symbol defined at two locations, one of them disabled, is reported with
\* the other location only
C4_Witness ==
  /\ Done
  /\ \E m \in disabled : \E s \in ScopeIds :
       \E k \in Keys(previous_scopes[s].defines) :
         /\ m \in Defs(s, k) /\ ~ReadInScope(s, k)
         /\ \E i \in LinesOf(k) : ListsSorted(stdout[i].locs, Defs(s, k) \ {m})

\* C5: a disable marker is reported as an unused disable comment exactly
\* when its location is not the location of a definition of a name that is
\* unread (in non-test code, in the scope of the definition); a reported
\* marker sets the exit status to 1, is printed once, after every symbol line,
\* in ascending order of the locations.
C5_UnusedMarkerReported ==
  Done =>
    /\ \A m \in disabled : ~Coincides(m) <=> m \in ReportedMarkers
    /\ ReportedMarkers \subseteq disabled
    /\ ReportedMarkers # {} => retv = 1
    /\ \A i \in MarkerLines : \A j \in SymbolLines : j < i
    /\ \A i, j \in MarkerLines : i < j => StrLt(stdout[i].loc, stdout[j].loc)

\* a marker on the line of a definition that is read in non-test code is
\* reported, after the line of another symbol
C5_Witness ==
  /\ Done
  /\ SymbolLines # {}
  /\ \E i \in MarkerLines : \E k \in DefinedNames :
       /\ stdout[i].loc \in AllDefLocs(k)
       /\ ReadInCode(k)
       /\ retv = 1

\* C6: a completed run exits with 1 if at least one line was printed and
\* with 0 otherwise.
C6_ExitStatus ==
  Done => /\ retv \in {0, 1}
          /\ retv = 1 <=> stdout # <<>>

\* a run whose only diagnostic is an unused disable comment exits with 1
C6_Witness ==
  Done /\ SymbolLines = {} /\ MarkerLines # {} /\ retv = 1

\* the definitions main() reports: (s, n) is the n-th name defined in scope s,
\* when it is not exempt, not read in non-test code in s, and has a location
\* without a disable marker
ReportedItems ==
  { sn \in UNION { { <<s, n>> : n \in DOMAIN previous_scopes[s].defines } :
                   s \in ScopeIds } :
      LET item == previous_scopes[sn[1]].defines[sn[2]]
      IN  /\ ~Exempt(item.k)
          /\ ~ReadInScope(sn[1], item.k)
          /\ item.v \ disabled # {} }

\* the position of the line of a reported definition: one more than the
\* number of reported definitions of the scopes closed earlier and of the
\* names defined earlier in the same scope
Rank(sn) ==
  1 + Cardinality({ e \in ReportedItems :
                      e[1] < sn[1] \/ (e[1] = sn[1] /\ e[2] < sn[2]) })

\* C7 (as stated): the symbol lines are sorted by symbol name, whatever the
\* order of the definitions and their scopes.
C7_AsStated ==
  Done =>
    \A i, j \in SymbolLines : i < j => ~StrLt(stdout[j].k, stdout[i].k)

\* C7 (amended): the symbol lines are printed one per reported definition,
\* scope by scope in the order in which the scopes were closed (a function's
\* scope when its body ends, the module scope last), and within a scope in
\* the order in which the names were first defined; the locations within a
\* line are in ascending order; the lines about markers follow.
C7_ScopeThenDefinitionOrder ==
  Done =>
    /\ SymbolLines = 1 .. Cardinality(ReportedItems)
    /\ \A sn \in ReportedItems :
         LET item == previous_scopes[sn[1]].defines[sn[2]]
         IN  /\ stdout[Rank(sn)].k = item.k
             /\ ListsSorted(stdout[Rank(sn)].locs, item.v \ disabled)

\* two symbols are reported, the one whose name sorts later first
C7_Witness ==
  /\ Done
  /\ \E i, j \in SymbolLines : i < j /\ StrLt(stdout[j].k, stdout[i].k)

\* the scopes of functions, with the definition each belongs to
FunctionScopes == { s \in ScopeIds : scope_nodes[s].node.type = "FunctionDef" }

\* where the function of scope s, and each of its parameters, is defined
DefLoc(s) == _file_line(scope_nodes[s].ctx.filename, scope_nodes[s].lineno)

\* the names of the parameters of the function of scope s
Params(s) ==
  LET a == scope_nodes[s].node.args
  IN  { x.arg : x \in Range(a.posonlyargs) \cup Range(a.args)
                        \cup Range(a.kwonlyargs)
                        \cup ({a.vararg, a.kwarg} \ {NoneNode}) }

\* the lines about parameter p of the function of scope s
ParamLines(s, p) == { i \in LinesOf(p) : DefLoc(s) \in Range(stdout[i].locs) }

\* def x(a, *b, c, **d) in a file that is no test file, in a run with
\* parameter tracking, an empty allowlist and no disable marker, where x is
\* read and no parameter is
ScenarioABCD(s) ==
  /\ track_args /\ allowed_symbols = {} /\ disabled = {}
  /\ ~scope_nodes[s].ctx.is_test
  /\ Params(s) = {sym_a, sym_b, sym_c, sym_d}
  /\ ReadInCode(sym_x)
  /\ \A p \in Params(s) : ~ReadInCode(p)

\* C8 (as stated): with the body `pass` as with the body `return 1`, the
\* function def x(a, *b, c, **d) gets one "never read" line per parameter and
\* the run exits with 1.
C8_AsStated ==
  Done =>
    \A s \in FunctionScopes :
      (ScenarioABCD(s)
         /\ scope_nodes[s].node.body \in {<<Pass>>, <<Return(Constant(PyInt))>>}) =>
        /\ \A p \in Params(s) :
             Cardinality(LinesOfKind(p, "never read")) = 1
        /\ retv = 1

\* C8 (amended): with the body `return 1` each of the four parameters gets
\* exactly one line, a "never read" line with the location of the definition,
\* the four lines are in the order a, b, c, d, and the run exits with 1; with
\* the body `pass` the function is a stub, no parameter is recorded and no
\* line is printed about a parameter.
C8_UnusedArguments ==
  Done =>
    \A s \in FunctionScopes :
      ScenarioABCD(s) =>
        /\ scope_nodes[s].node.body = <<Return(Constant(PyInt))>> =>
             /\ \A p \in Params(s) :
                  /\ Cardinality(LinesOf(p)) = 1
                  /\ \A i \in LinesOf(p) :
                       /\ stdout[i].kind = "never read"
                       /\ stdout[i].locs = <<DefLoc(s)>>
             /\ \E i \in DOMAIN stdout :
                  /\ i + 3 \in DOMAIN stdout
                  /\ << stdout[i].k, stdout[i + 1].k, stdout[i + 2].k,
                        stdout[i + 3].k >> = << sym_a, sym_b, sym_c, sym_d >>
             /\ retv = 1
        /\ scope_nodes[s].node.body = <<Pass>> =>
             /\ previous_scopes[s].defines = <<>>
             /\ \A p \in Params(s) : LinesOf(p) = {}

\* def x(a, *b, c, **d): return 1, and a read of x: four lines, exit status 1
C8_Witness ==
  /\ Done
  /\ \E s \in FunctionScopes :
       /\ ScenarioABCD(s)
       /\ scope_nodes[s].node.body = <<Return(Constant(PyInt))>>
       /\ Len(stdout) = 4
       /\ retv = 1

\* the statements the definition of a stub allows: a bare string or ellipsis
\* expression, pass, and a raise without cause of NotImplementedError or
\* AssertionError, by name or by call
StubForms ==
  { Pass, Expr(Constant(PyEllipsis)) }
  \cup { Expr(Constant(PyStr(t))) : t \in {<<"d", "o", "c">>} }
  \cup { Raise(Name(e, "Load"), NoneNode) : e \in {NotImplementedError, AssertionError} }
  \cup { Raise(Call(Name(e, "Load")), NoneNode) :
           e \in {NotImplementedError, AssertionError} }

\* the function of scope s is a stub
IsStubScope(s) == Range(scope_nodes[s].node.body) \subseteq StubForms

\* C9: the parameters of a stub function are never recorded and never
\* reported; with parameter tracking, in a file that is no test file, every
\* parameter of a function with any statement outside the stub forms is
\* recorded at the location of the definition, and is reported exactly when
\* it is not read in the function, not exempt and not disabled.
C9_StubFunctions ==
  Done =>
    \A s \in FunctionScopes :
      /\ IsStubScope(s) =>
           /\ previous_scopes[s].defines = <<>>
           /\ \A p \in Params(s) : ParamLines(s, p) = {}
      /\ (~IsStubScope(s) /\ track_args /\ ~scope_nodes[s].ctx.is_test) =>
           \A p \in Params(s) :
             /\ DefLoc(s) \in Defs(s, p)
             /\ ParamLines(s, p) # {} <=>
                  (~ReadInScope(s, p) /\ ~Exempt(p) /\ DefLoc(s) \notin disabled)

\* a function whose body is a raise of NotImplementedError or AssertionError
\* has a parameter that is read nowhere, in a run with parameter tracking that
\* prints no line about the parameter
C9_Witness ==
  /\ Done /\ track_args
  /\ \E s \in FunctionScopes :
       /\ ~scope_nodes[s].ctx.is_test
       /\ IsStubScope(s)
       /\ scope_nodes[s].node.body[1].type = "Raise"
       /\ \E p \in Params(s) :
            ~Exempt(p) /\ ~ReadInCode(p) /\ ~ReadInTests(p) /\ LinesOf(p) = {}

\* the identifiers t for which str is an entry-point string
\* <left>=<module>:<t>: left is not empty and has no "=", module is not
\* empty and has no ":", t is a non-empty word
EntryPointIdentifiers(str) ==
  { SubSeq(str, j + 1, Len(str)) : j \in
      { j \in 1..(Len(str) - 1) :
          /\ str[j] = ":"
          /\ \A n \in (j + 1)..Len(str) : IsWordChar(str[n])
          /\ \E i \in 2..(j - 2) :
               /\ str[i] = "="
               /\ \A n \in 1..(i - 1) : str[n] # "="
               /\ \A n \in (i + 1)..(j - 1) : str[n] # ":" } }

\* the lines of the values of the options.entry_points section
EntryPointLines ==
  IF setup_cfg_file.exists /\ setup_cfg_file.has_section
  THEN UNION { Range(splitlines(strip(v))) : v \in Range(setup_cfg_file.values) }
  ELSE {}

\* the names the entry points of setup.py and setup.cfg refer to
EntryPointNames ==
  UNION { EntryPointIdentifiers(str) :
            str \in (IF setup_py_file.exists THEN Range(setup_py_file.consts) ELSE {})
                      \cup EntryPointLines }

\* the locations of the reads of k recorded in the module scope
ModuleReads(k) ==
  IF ReadInScope(ModuleId, k) THEN previous_scopes[ModuleId].reads[k] ELSE {}

\* the reads that come from file fname
ReadsFrom(fname) ==
  { loc \in UNION { ModuleReads(k) : k \in DOMAIN previous_scopes[ModuleId].reads } :
      startswith(loc, fname) }

\* C10: the trailing identifier of an entry-point string of setup.py (any
\* string constant) or of setup.cfg's options.entry_points section (any line
\* of any value) is read in non-test code at module level, so a symbol of
\* that name defined at module level only has no line; a missing setup.py,
\* and a missing setup.cfg or section, contribute no read.
C10_EntryPoints ==
  Done =>
    /\ \A k \in EntryPointNames :
         /\ ReadInScope(ModuleId, k)
         /\ DefScopes(k) \subseteq {ModuleId} => LinesOf(k) = {}
    /\ ~setup_py_file.exists => ReadsFrom(setup_py) = {}
    /\ (~setup_cfg_file.exists \/ ~setup_cfg_file.has_section) =>
         ReadsFrom(setup_cfg) = {}

\* x is defined at module level and referenced by an entry point of setup.cfg
\* only: nothing is printed about it
C10_Witness ==
  /\ Done
  /\ sym_x \in EntryPointNames
  /\ ~setup_py_file.exists
  /\ Defs(ModuleId, sym_x) # {}
  /\ ModuleReads(sym_x) \subseteq ReadsFrom(setup_cfg)
  /\ ~ReadInTests(sym_x)
  /\ ~Exempt(sym_x)
  /\ LinesOf(sym_x) = {}

\* the mentions of names in the type comments of files that are no test files
CodeTypeComments == { m \in type_comments : ~m.is_test }

\* C11 (as stated): a name mentioned in a type comment of a file that is no
\* test file is recorded as a read at the line of the comment, so that a
\* symbol of that name defined at module level has no line.
C11_AsStated ==
  Done =>
    \A m \in CodeTypeComments :
      /\ m.loc \in ModuleReads(m.name)
      /\ DefScopes(m.name) \subseteq {ModuleId} => LinesOf(m.name) = {}

\* the names an expression reads: its Name and Attribute nodes in Load context
RECURSIVE NamesLoaded(_)
NamesLoaded(e) ==
  CASE e.type = "Name" -> IF e.ctx = "Load" THEN {e.id} ELSE {}
    [] e.type = "Attribute" ->
         (IF e.ctx = "Load" THEN {e.attr} ELSE {}) \cup NamesLoaded(e.value)
    [] e.type = "Call" -> NamesLoaded(e.func)
    [] e.type = "Tuple" -> UNION { NamesLoaded(e.elts[i]) : i \in DOMAIN e.elts }
    [] OTHER -> {}

\* the names the statements of a function body read, nested functions included
RECURSIVE ReadsOfBody(_)
ReadsOfBody(body) ==
  IF body = <<>> THEN {}
  ELSE LET st == Head(body)
           here ==
             CASE st.type \in {"Expr", "Return"} -> NamesLoaded(st.value)
               [] st.type = "Raise" -> NamesLoaded(st.exc) \cup NamesLoaded(st.cause)
               [] st.type = "Assign" ->
                    NamesLoaded(st.value)
                      \cup UNION { NamesLoaded(st.targets[i]) : i \in DOMAIN st.targets }
               [] st.type = "FunctionDef" -> ReadsOfBody(st.body)
               [] OTHER -> {}
       IN  here \cup ReadsOfBody(Tail(body))

\* the (name, location) pairs of a usage map
Pairs(m) == UNION { { <<k, loc>> : loc \in m[k] } : k \in DOMAIN m }

\* the (name, location) pairs of a scope's defines
DefinePairs(d) == UNION { { <<d[i].k, loc>> : loc \in d[i].v } : i \in DOMAIN d }

\* one step of the traversal: the scopes that stay on the stack all gain the
\* same reads, in reads_tests in a test file and in reads otherwise, and lose
\* none; only the scope that was on top may gain a definition, and none does
\* in a test file; the closed scopes are left as they are
ReadDefineStep ==
  LET Common == DOMAIN scopes \cap DOMAIN scopes'
      NewReads(i) == Pairs(scopes'[i].reads) \ Pairs(scopes[i].reads)
      NewReadsTests(i) == Pairs(scopes'[i].reads_tests) \ Pairs(scopes[i].reads_tests)
  IN  /\ \A i \in Common :
           /\ Pairs(scopes[i].reads) \subseteq Pairs(scopes'[i].reads)
           /\ Pairs(scopes[i].reads_tests) \subseteq Pairs(scopes'[i].reads_tests)
           /\ NewReads(i) = NewReads(1)
           /\ NewReadsTests(i) = NewReadsTests(1)
           /\ is_test => NewReads(i) = {}
           /\ ~is_test => NewReadsTests(i) = {}
           /\ DefinePairs(scopes[i].defines) \subseteq DefinePairs(scopes'[i].defines)
           /\ (i < Len(scopes) \/ is_test) => scopes'[i].defines = scopes[i].defines
      /\ \A i \in DOMAIN scopes' \ DOMAIN scopes :
           /\ scopes'[i].reads = EmptyMap /\ scopes'[i].reads_tests = EmptyMap
           /\ is_test => scopes'[i].defines = <<>>
      /\ \A i \in DOMAIN previous_scopes :
           /\ i \in DOMAIN previous_scopes'
           /\ previous_scopes'[i] = previous_scopes[i]

\* a recorded parameter of a function counts as read exactly when the body of
\* the function, nested functions included, reads the name; otherwise, unless
\* exempt or disabled, it is reported as never read, whatever is read outside
ParametersReadInside ==
  Done =>
    \A s \in FunctionScopes : \A p \in Params(s) :
      DefLoc(s) \in Defs(s, p) =>
        /\ ReadInScope(s, p) <=> p \in ReadsOfBody(scope_nodes[s].node.body)
        /\ (~Exempt(p) /\ DefLoc(s) \notin disabled) =>
             /\ p \in ReadsOfBody(scope_nodes[s].node.body) => ParamLines(s, p) = {}
             /\ p \notin ReadsOfBody(scope_nodes[s].node.body) =>
                  /\ ParamLines(s, p) # {}
                  /\ \A i \in ParamLines(s, p) : stdout[i].kind = "never read"

\* C12: a read is recorded in every scope on the stack, in reads_tests in a
\* test file and in reads otherwise, and in no closed scope; a definition is
\* added to the topmost scope only, and only outside test files; hence a
\* parameter is reported as never read unless the body of its function (or of
\* a function nested in it) reads it, also when the same name is read at
\* module level.
C12_ReadsAndDefines == [][ReadDefineStep]_vars /\ []ParametersReadInside

\* the parameter y of a function is read at module level only, and reported
C12_Witness ==
  /\ Done
  /\ \E s \in FunctionScopes : \E p \in Params(s) :
       /\ DefLoc(s) \in Defs(s, p)
       /\ ReadInScope(ModuleId, p)
       /\ ~ReadInScope(s, p)
       /\ ParamLines(s, p) # {}

\* before the end of the run the stack holds the module scope and one scope
\* for each visit_FunctionDef in progress; between files, and after a
\* failure, it holds the module scope alone; at the end of a completed run it
\* is empty
ScopeStackShape ==
  /\ pc # "done" => Len(scopes) = 1 + Len(stack)
  /\ pc \in {"setup_py", "setup_cfg", "files", "tokenize", "failed"} =>
       Len(scopes) = 1
  /\ pc = "done" => scopes = <<>> /\ previous_scopes # <<>>

\* one step: a scope is created only by entering a function definition, one
\* at a time and on top of the stack; the scopes popped are appended to the
\* closed scopes as they are, innermost first; the module scope is popped by
\* the end of the run only; no closed scope changes or is dropped
ScopeStep ==
  LET n == Len(scopes)
      m == Len(scopes')
  IN  /\ m + Len(previous_scopes') =
           n + Len(previous_scopes) + (IF Len(stack') > Len(stack) THEN 1 ELSE 0)
      /\ m > n => /\ m = n + 1
                  /\ Len(stack') = Len(stack) + 1
                  /\ previous_scopes' = previous_scopes
      /\ m < n => /\ previous_scopes' =
                       previous_scopes \o Reverse(SubSeq(scopes, m + 1, n))
                  /\ scopes' = SubSeq(scopes, 1, m)
                  /\ m = 0 <=> pc' = "done"
      /\ m = n => previous_scopes' = previous_scopes
      /\ SubSeq(previous_scopes', 1, Len(previous_scopes)) = previous_scopes

\* C13: during the traversal the scope stack is never empty and has the
\* module scope at the bottom; a scope pushed for a function definition is
\* popped and appended to the closed scopes when the traversal of the
\* function ends or fails, so that between files the stack holds the module
\* scope alone; the end of the run closes the module scope; every scope
\* created is closed once and no closed scope is changed afterwards.
C13_ScopeDiscipline == []ScopeStackShape /\ [][ScopeStep]_vars

\* a failure inside a nested function has closed both function scopes and
\* left the module scope on the stack
C13_Witness ==
  /\ pc = "failed"
  /\ Len(scopes) = 1
  /\ Len(previous_scopes) = 2
  /\ scope_nodes[1].node \in Range(scope_nodes[2].node.body)
=============================================================================
